---- MODULE Spec2Model ----
(***************************************************************************)
(* Model of the greedy hybrid scheduler (scheduler.py, schedule_entities.py)*)
(*                                                                         *)
(* Numbers.  The program computes with Python floats.  A number is         *)
(* modelled as an exact rational <<n, d>> in lowest terms with d > 0, so   *)
(* that divisions (scores, weight shares) are computed, not approximated.  *)
(* Floating-point rounding is outside the model.                           *)
(***************************************************************************)
EXTENDS Integers, Sequences, FiniteSets

(***************************************************************************)
(* Bounds of the model.                                                    *)
(***************************************************************************)
MaxTime == 3            \* job starts and finishes are integers in 0..MaxTime
MaxJobs == 2            \* the caller's list holds 1..MaxJobs jobs
MaxPartitions == 2      \* partition labels are 1..MaxPartitions
MaxMinWindow == 2       \* min_window_size is an integer in 1..MaxMinWindow
MaxWeight == 2          \* weights handed to the distributor are in 0..MaxWeight
MaxLines == 2           \* the job feed holds 1..MaxLines lines

(***************************************************************************)
(* Exact rational arithmetic.                                              *)
(***************************************************************************)
RECURSIVE GCD(_, _)
GCD(a, b) == IF b = 0 THEN a ELSE IF b = 1 THEN 1 ELSE GCD(b, a % b)

Abs(n) == IF n < 0 THEN -n ELSE n

\* n/d in lowest terms (d > 0)
Lowest(n, d, g) == <<n \div g, d \div g>>
Norm(n, d) == Lowest(n, d, GCD(Abs(n), d))

R(n) == <<n, 1>>
Frac(n, d) == Norm(n, d)

\* a + b, over the least common denominator
AddOver(a, b, g) ==
    Norm(a[1] * (b[2] \div g) + b[1] * (a[2] \div g), (a[2] \div g) * b[2])
Add(a, b) == AddOver(a, b, IF a[2] = b[2] THEN a[2] ELSE GCD(a[2], b[2]))
Sub(a, b) == Add(a, <<-b[1], b[2]>>)
\* a * b, cancelling across before multiplying
MulBy(a, b, g1, g2) ==
    <<(a[1] \div g1) * (b[1] \div g2), (a[2] \div g2) * (b[2] \div g1)>>
Mul(a, b) == MulBy(a, b, GCD(Abs(a[1]), b[2]), GCD(Abs(b[1]), a[2]))
\* a / b for b # 0 (Python raises ZeroDivisionError otherwise)
Div(a, b) ==
    Mul(a, IF b[1] > 0 THEN <<b[2], b[1]>> ELSE <<-b[2], -b[1]>>)
\* a < b: by cross-multiplication while the products are small, otherwise
\* by integer parts and then by the reciprocals of the fractional parts,
\* so that no product overflows
RECURSIVE Lt(_, _)
Lt(a, b)  ==
    IF a[2] = b[2] THEN a[1] < b[1]
    ELSE IF /\ -30000 < a[1] /\ a[1] < 30000 /\ a[2] < 30000
            /\ -30000 < b[1] /\ b[1] < 30000 /\ b[2] < 30000
    THEN a[1] * b[2] < b[1] * a[2]
    ELSE IF a[1] \div a[2] # b[1] \div b[2]
         THEN a[1] \div a[2] < b[1] \div b[2]
    ELSE IF b[1] % b[2] = 0 THEN FALSE
    ELSE IF a[1] % a[2] = 0 THEN TRUE
    ELSE Lt(<<b[2], b[1] % b[2]>>, <<a[2], a[1] % a[2]>>)
Le(a, b)  == ~Lt(b, a)
Max(a, b) == IF Lt(a, b) THEN b ELSE a
Min(a, b) == IF Lt(b, a) THEN b ELSE a
IsZero(a) == a[1] = 0

RECURSIVE SumSeq(_)
SumSeq(s) == IF s = <<>> THEN R(0) ELSE Add(Head(s), SumSeq(Tail(s)))

\* the maximum / minimum of a non-empty finite set of rationals
MaxOf(S) == CHOOSE x \in S : \A y \in S : Le(y, x)
MinOf(S) == CHOOSE x \in S : \A y \in S : Le(x, y)

Range(s) == {s[i] : i \in DOMAIN s}

\* A sequence written as a function constructor, as the explicit tuple of
\* its elements (TLC would otherwise evaluate the constructor anew at every
\* application).
Tuple(f) == f \o <<>>

(***************************************************************************)
(* Entities (schedule_entities.py).                                        *)
(***************************************************************************)
Eps == Frac(1, 1000)

Interval(start, finish) == [start |-> start, finish |-> finish]
Window(start, finish, partition) ==
    [start |-> start, finish |-> finish, partition |-> partition]
Job(start, finish, partition, duration) ==
    [start |-> start, finish |-> finish, partition |-> partition,
     duration |-> duration]

\* Interval.__init__ raises IntervalError exactly when finish < start
IntervalOk(start, finish) == ~Lt(finish, start)
\* Job.__init__: the interval check, then 0 <= duration <= length
JobOk(start, finish, duration) ==
    /\ IntervalOk(start, finish)
    /\ ~Lt(duration, R(0))
    /\ ~Lt(Sub(finish, start), duration)

length(i) == Sub(i.finish, i.start)

\* containment without the tolerance
contains_exact(self, other) ==
    /\ Le(self.start, other.start)
    /\ Le(other.finish, self.finish)

contains(self, other) ==
    /\ Le(self.start, Add(other.start, Eps))
    /\ Le(Sub(other.finish, Eps), self.finish)

\* intersect returns None when the bounds cross; have_intersection(strict)
have_intersection(self, other, strict) ==
    LET s == Max(self.start, other.start)
        f == Min(self.finish, other.finish)
    IN  /\ IntervalOk(s, f)
        /\ (~strict \/ Lt(s, f))

(***************************************************************************)
(* Candidate generation.                                                   *)
(***************************************************************************)
JobStarts(jobs)   == {jobs[i].start : i \in DOMAIN jobs}
JobFinishes(jobs) == {jobs[i].finish : i \in DOMAIN jobs}

\* the first value added to an empty set only
WithFirstIfEmpty(times, first) == IF times = {} THEN {first} ELSE times

\* `if len(times) == 0 or first not in times: times.add(first)`
WithFirst(times, first) ==
    IF times = {} \/ first \notin times THEN times \cup {first} ELSE times

\* a filter that lets the upper end through
BetweenClosed(timestamps, lo, hi) ==
    {t \in timestamps : Le(lo, t) /\ Le(t, hi)}

\* filter(lambda t: lo <= t < hi, timestamps)
Between(timestamps, lo, hi) == {t \in timestamps : Le(lo, t) /\ Lt(t, hi)}

\* a start filter that also admits job starts before the cursor
possible_start_time_early(time, jobs, d) ==
    WithFirst(Between(JobStarts(jobs), Sub(time, d), Add(time, d)), time)

\* a start filter that admits job starts up to two window sizes ahead
possible_start_time_wide(time, jobs, d) ==
    WithFirst(Between(JobStarts(jobs), time, Add(time, Mul(R(2), d))), time)

possible_start_time(time, jobs, d) ==
    WithFirst(Between(JobStarts(jobs), time, Add(time, d)), time)

FinishTimes(timestamps, lo, hi) == WithFirst(Between(timestamps, lo, hi), lo)

\* finish times taken from half a minimal window after the start
possible_finish_time_half(start, jobs, d) ==
    FinishTimes(JobStarts(jobs) \cup JobFinishes(jobs),
                Add(start, Div(d, R(2))), Add(start, Mul(R(2), d)))

possible_finish_time(start, jobs, d) ==
    FinishTimes(JobStarts(jobs) \cup JobFinishes(jobs),
                Add(start, d), Add(start, Mul(R(2), d)))

\* The generator iterates two Python sets, in an order the language leaves
\* unspecified.  The ascending order stands for it: the callers use the
\* length of the yielded list and its elements (__find_best_window is
\* modelled for every order), never the position of a pair.
Ascending(S) ==
    Tuple([k \in 1..Cardinality(S) |->
              CHOOSE x \in S : Cardinality({y \in S : Lt(y, x)}) = k - 1])

\* the inner loop: the pairs yielded for one start
YieldFinishes(start, finishes) ==
    Tuple([k \in DOMAIN finishes |-> <<start, finishes[k]>>])

\* the outer loop: the pairs yielded for the starts, in turn
RECURSIVE YieldStarts(_, _, _)
YieldStarts(starts, jobs, d) ==
    IF starts = <<>> THEN <<>>
    ELSE YieldFinishes(Head(starts),
                       Ascending(possible_finish_time(Head(starts), jobs, d)))
         \o YieldStarts(Tail(starts), jobs, d)

\* the sequence of (start, finish) pairs the generator yields
get_acceptable_following_windows(time, jobs, d) ==
    YieldStarts(Ascending(possible_start_time(time, jobs, d)), jobs, d)

(***************************************************************************)
(* Score strategies.  A strategy is named by its key in score_criteria /   *)
(* window_score_criteria.                                                  *)
(***************************************************************************)
default_score(interval, job, time) ==
    LET part     == Div(length(interval), length(job))
        hardness == Div(job.duration, length(job))
    IN  Mul(part, hardness)

enhanced_score(interval, job, time) ==
    LET part     == Div(length(interval), Sub(job.finish, time))
        hardness == Div(job.duration, Sub(job.finish, time))
    IN  Mul(part, hardness)

score_criteria(score, interval, job, time) ==
    IF score = "default" THEN default_score(interval, job, time)
                         ELSE enhanced_score(interval, job, time)

get_window_score(score, window, job, time) ==
    IF contains(job, window) /\ window.partition = job.partition
    THEN score_criteria(score, window, job, time)
    ELSE R(0)

PenaltyFactor == Frac(-95, 100)

get_enhanced_window_score(score, window, job, time) ==
    LET aux_interval == Interval(time, window.finish)
    IN  IF contains(job, window) /\ window.partition = job.partition
        THEN score_criteria(score, window, job, time)
        ELSE IF /\ have_intersection(job, aux_interval, TRUE)
                /\ job.partition # window.partition
        THEN Mul(PenaltyFactor,
                 score_criteria(score, Interval(job.start, window.finish),
                                job, time))
        ELSE R(0)

\* self.window_score, bound in HybridSchedule.__init__; cfg is the
\* instance's configuration [score, window_score, recalc_jobs]
window_score(cfg, window, job, time) ==
    IF cfg.window_score = "default"
    THEN get_window_score(cfg.score, window, job, time)
    ELSE get_enhanced_window_score(cfg.score, window, job, time)

(***************************************************************************)
(* The interval distributor.                                               *)
(***************************************************************************)
None == <<>>

\* the weight shares alone, not capped by max_sizes
UncappedDurations(interval, distribution, max_sizes) ==
    Tuple([p \in DOMAIN distribution |->
              Mul(Div(distribution[p], SumSeq(distribution)),
                  length(interval))])

\* durations of distribute_intervals: the estimated lengths
EstimatedDurations(interval, distribution, max_sizes) ==
    LET total == SumSeq(distribution)
    IN  Tuple([p \in DOMAIN distribution |->
                  Min(max_sizes[p],
                      Mul(Div(distribution[p], total), length(interval)))])

\* range(len(durations)) as it stands, without the sort
IndexOrder(durations) == Tuple([k \in 1..Len(durations) |-> k])

\* sorted(range(n), key=lambda p: -durations[p]); Python's sort is stable
SortedOrder(durations) ==
    LET n == Len(durations)
        before(q, p) == \/ Lt(durations[p], durations[q])
                        \/ (durations[q] = durations[p] /\ q < p)
        rank(p) == Cardinality({q \in 1..n : before(q, p)})
    IN  Tuple([k \in 1..n |-> CHOOSE p \in 1..n : rank(p) = k - 1])

\* the length the estimate alone would give
EstimatedLength(durations, min_sizes, p) == durations[p]

\* length = max(durations[p], min_sizes[p]), in both loops
BaseLength(durations, min_sizes, p) == Max(durations[p], min_sizes[p])

\* a test that lets every sub-interval through
FitsAlways(interval, start, len) == TRUE

\* `if start + length > interval.finish: break`, in both loops
Fits(interval, start, len) == ~Lt(interval.finish, Add(start, len))

\* the first loop: where `start` stands when it ends
FillPass(interval, order, durations, min_sizes) ==
    LET RECURSIVE fill(_, _)
        fill(k, start) ==
            IF k > Len(order) THEN start
            ELSE IF Fits(interval, start,
                         BaseLength(durations, min_sizes, order[k]))
            THEN fill(k + 1,
                      Add(start, BaseLength(durations, min_sizes, order[k])))
            ELSE start
    IN  fill(1, interval.start)

\* the second loop: the result list
ExpandPass(interval, order, durations, max_sizes, min_sizes, total_delta0) ==
    LET RECURSIVE expand(_, _, _, _)
        place(k, start, total_delta, result, p, delta, len) ==
            IF Fits(interval, start, len)
            THEN expand(k + 1, Add(start, len), Sub(total_delta, delta),
                        [result EXCEPT ![p] =
                            Interval(start, Add(start, len))])
            ELSE result
        grow(k, start, total_delta, result, p, len0, delta) ==
            place(k, start, total_delta, result, p, delta, Add(len0, delta))
        expand(k, start, total_delta, result) ==
            IF k > Len(order) THEN result
            ELSE grow(k, start, total_delta, result, order[k],
                      BaseLength(durations, min_sizes, order[k]),
                      Max(R(0),
                          Min(total_delta,
                              Sub(max_sizes[order[k]],
                                  BaseLength(durations, min_sizes,
                                             order[k])))))
    IN  expand(1, interval.start, total_delta0,
               Tuple([p \in DOMAIN durations |-> None]))

\* the two loops, with no slack handed to the second
ArrangeWithoutSlack(interval, durations, max_sizes, min_sizes) ==
    ExpandPass(interval, SortedOrder(durations), durations, max_sizes,
               min_sizes, R(0))

\* the two loops, over the estimated durations
Arrange(interval, durations, max_sizes, min_sizes) ==
    LET order == SortedOrder(durations)
        start == FillPass(interval, order, durations, min_sizes)
    IN  ExpandPass(interval, order, durations, max_sizes, min_sizes,
                   Sub(interval.finish, start))

distribute_intervals(interval, distribution, max_sizes, min_sizes) ==
    IF IsZero(SumSeq(distribution)) THEN <<>>
    ELSE Arrange(interval,
                 EstimatedDurations(interval, distribution, max_sizes),
                 max_sizes, min_sizes)

(***************************************************************************)
(* HybridSchedule: the helpers of build.  `js` is the working job list     *)
(* (self.jobs) read through the heap, `cfg` the instance's configuration.  *)
(***************************************************************************)
RecalcThreshold == Frac(1, 1000000)
\* no lower bound on a recalculated duration
MinDurationNone == R(0)

MinDuration == Frac(1, 100)

\* __recalc_jobs: the working jobs after the recalculation for `window`
Rescale(cfg, js, window, scores, total) ==
    IF Lt(total, RecalcThreshold) THEN js
    ELSE Tuple([i \in DOMAIN js |->
             [js[i] EXCEPT !.duration =
                 Max(MinDuration,
                     Sub(@, Mul(cfg.recalc_jobs,
                                Mul(Div(scores[i], total),
                                    length(window)))))]])

RescaleBy(cfg, js, window, scores) ==
    Rescale(cfg, js, window, scores, SumSeq(scores))

recalc_jobs(cfg, js, window, time) ==
    RescaleBy(cfg, js, window,
              Tuple([i \in DOMAIN js |->
                        Max(R(0), window_score(cfg, window, js[i], time))]))

calculate_greedy_func(cfg, js, window, time) ==
    SumSeq(Tuple([i \in DOMAIN js |->
                     window_score(cfg, window, js[i], time)]))

\* __find_best_window keeps the first maximum it meets.  The candidates come
\* from iterating Python sets, whose order the language leaves unspecified,
\* so every candidate that attains the maximum can be the one met first; for
\* a given candidate the partitions are tried in the order of
\* self.partitions.  The operator is the set of windows the method can
\* return.
\* tops: the (candidate, partition index) pairs that attain the maximum
\* the maximum kept when it is met again: for a candidate, the last of the
\* partitions that attain it
LastOfTops(partitions, tops) ==
    LET lastk(c) == CHOOSE k \in DOMAIN partitions :
                        /\ <<c, k>> \in tops
                        /\ \A k2 \in (k + 1)..Len(partitions) :
                              <<c, k2>> \notin tops
    IN  {Window(c[1], c[2], partitions[lastk(c)]) :
            c \in {t[1] : t \in tops}}
FirstOfTops(partitions, tops) ==
    LET firstk(c) == CHOOSE k \in DOMAIN partitions :
                        /\ <<c, k>> \in tops
                        /\ \A k2 \in 1..(k - 1) : <<c, k2>> \notin tops
    IN  {Window(c[1], c[2], partitions[firstk(c)]) :
            c \in {t[1] : t \in tops}}

TopsAt(table, best) ==
    {<<t[1], t[2]>> : t \in {t2 \in table : t2[3] = best}}

BestOf(partitions, table) ==
    FirstOfTops(partitions, TopsAt(table, MaxOf({t[3] : t \in table})))

find_best_window(cfg, js, partitions, intervals, time) ==
    BestOf(partitions,
           {<<c, k, calculate_greedy_func(
                        cfg, js, Window(c[1], c[2], partitions[k]), time)>> :
               c \in intervals, k \in DOMAIN partitions})

\* the arguments __split_subinterval_by_windows hands to the distributor
SplitDurations(js, partitions, interval) ==
    Tuple([p \in DOMAIN partitions |->
        SumSeq(Tuple([i \in DOMAIN js |->
                   IF contains(js[i], interval)
                      /\ js[i].partition = partitions[p]
                   THEN js[i].duration ELSE R(0)]))])

SplitWeights(cfg, js, partitions, interval) ==
    Tuple([p \in DOMAIN partitions |->
        SumSeq(Tuple([i \in DOMAIN js |->
                   IF contains(js[i], interval)
                      /\ js[i].partition = partitions[p]
                   THEN score_criteria(cfg.score, interval, js[i],
                                       interval.start)
                   ELSE R(0)]))])

\* __split_subinterval_by_windows: the windows it yields, in yield order
\* the loop over zip(self.partitions, windows_intervals)
YieldAt(partitions, wi, idx) ==
    Tuple([k \in DOMAIN idx |->
        Window(wi[idx[k]].start, wi[idx[k]].finish, partitions[idx[k]])])

YieldWindows(partitions, wi) ==
    LET emitted(p) == wi[p] # None /\ Lt(R(0), length(wi[p]))
    IN  YieldAt(partitions, wi,
                SelectSeq(Tuple([p \in DOMAIN wi |-> p]), emitted))

split_subinterval_by_windows(cfg, js, partitions, d, interval) ==
    YieldWindows(partitions,
                 distribute_intervals(
                     interval,
                     SplitWeights(cfg, js, partitions, interval),
                     SplitDurations(js, partitions, interval),
                     Tuple([p \in DOMAIN partitions |-> d])))

\* the for loop of the fallback branch: one recalculation per yielded window
RECURSIVE RecalcAll(_, _, _, _)
RecalcAll(cfg, js, ws, time) ==
    IF ws = <<>> THEN js
    ELSE RecalcAll(cfg, recalc_jobs(cfg, js, Head(ws), time), Tail(ws), time)

\* new_time as the finish of the window yielded last
LastFinish(ws, new_time) ==
    IF ws = <<>> THEN new_time ELSE ws[Len(ws)].finish

\* new_time as the finish of the window yielded first
FirstFinish(ws, new_time) ==
    IF ws = <<>> THEN new_time ELSE ws[1].finish
RECURSIVE MaxFinish(_, _)
MaxFinish(ws, new_time) ==
    IF ws = <<>> THEN new_time
    ELSE MaxFinish(Tail(ws), Max(Head(ws).finish, new_time))

(***************************************************************************)
(* The feasibility network.                                                *)
(***************************************************************************)
\* edges laid wherever the job contains the window, whatever the partition
build_network_any_partition(ijobs, ws) ==
    [source_cap |-> Tuple([i \in DOMAIN ijobs |-> ijobs[i].duration]),
     sink_cap   |-> Tuple([j \in DOMAIN ws |-> length(ws[j])]),
     edges      |-> {e \in (DOMAIN ijobs) \X (DOMAIN ws) :
                        contains(ijobs[e[1]], ws[e[2]])}]

build_network(ijobs, ws) ==
    [source_cap |-> Tuple([i \in DOMAIN ijobs |-> ijobs[i].duration]),
     sink_cap   |-> Tuple([j \in DOMAIN ws |-> length(ws[j])]),
     edges      |-> {e \in (DOMAIN ijobs) \X (DOMAIN ws) :
                        /\ contains(ijobs[e[1]], ws[e[2]])
                        /\ ijobs[e[1]].partition = ws[e[2]].partition}]

RECURSIVE SumOver(_, _)
SumOver(S, f) ==
    IF S = {} THEN R(0)
    ELSE LET x == CHOOSE y \in S : TRUE
         IN  Add(f[x], SumOver(S \ {x}, f))

\* preflow_push returns a maximum flow; its value is the capacity of a
\* minimum cut.  A cut keeps a set A of jobs on the source side, and with
\* them (the Job->Window edges are uncapacitated) every window they reach.
MaxFlowValue(net) ==
    LET J == DOMAIN net.source_cap
        reach(A) == {e[2] : e \in {e2 \in net.edges : e2[1] \in A}}
        cut(A) == Add(SumOver(J \ A, net.source_cap),
                      SumOver(reach(A), net.sink_cap))
    IN  MinOf({cut(A) : A \in SUBSET J})

(***************************************************************************)
(* State.  Job objects live in a heap, so that the caller's list, the      *)
(* instance's initial_jobs (the same list object) and the instance's jobs  *)
(* (a deep copy) are told apart by the objects they hold.                  *)
(***************************************************************************)
VARIABLES
    heap,             \* object id -> Job (the fields of every job object)
    caller_jobs,      \* the caller's list: a sequence of object ids
    given,            \* the values of the caller's jobs when handed over
    cfg,              \* [score, window_score, recalc_jobs] of the instance
    pc,               \* "unbuilt", "find_windows" (inside the loop), "built"
    jobs,             \* self.jobs: object ids
    initial_jobs,     \* self.initial_jobs: object ids
    min_window_size,  \* self.min_window_size
    partitions,       \* self.partitions
    time,             \* the cursor of __find_windows
    count,            \* the iteration counter of __find_windows
    windows,          \* the windows yielded so far; self.windows when built
    last_step,        \* how the loop last moved the cursor
    network,          \* self.network
    total_duration,   \* self.total_duration
    flow_value,       \* residual_network.graph['flow_value']
    call,             \* the arguments of a direct call of a module function
    ret               \* what that call returned

vars == <<heap, caller_jobs, given, cfg, pc, jobs, initial_jobs,
          min_window_size, partitions, time, count, windows, last_step, network,
          total_duration, flow_value, call, ret>>

\* the jobs a caller can hand over: valid Job objects on the integer grid
JobDomain ==
    {Job(R(s), R(f), p, R(dur)) :
        s \in 0..MaxTime, f \in 0..MaxTime, p \in 1..MaxPartitions,
        dur \in 0..MaxTime}

ValidJobs == {j \in JobDomain : JobOk(j.start, j.finish, j.duration)}

JobKey(j) ==
    ((j.start[1] * (MaxTime + 1) + j.finish[1]) * (MaxTime + 1)
        + j.duration[1]) * (MaxPartitions + 1) + j.partition

\* Job lists are taken up to the order of their elements (the list is only
\* ever summed over and scanned for timestamps) and up to the naming of the
\* partitions (labels are only compared for equality, and self.partitions
\* takes every order): the first job carries label 1.
JobLists ==
    {l \in UNION {[1..n -> ValidJobs] : n \in 1..MaxJobs} :
        /\ l[1].partition = 1
        /\ \A i \in 1..(Len(l) - 1) : JobKey(l[i]) <= JobKey(l[i + 1])}

RecalcValues == {R(0), Frac(1, 2), R(1)}

Configs ==
    [score : {"default", "enhanced"},
     window_score : {"default", "enhanced"},
     recalc_jobs : RecalcValues]

Unset == <<>>

Init ==
    /\ given \in JobLists
    /\ heap = given
    /\ caller_jobs = Tuple([i \in DOMAIN given |-> i])
    /\ cfg \in Configs
    /\ pc = "unbuilt"
    /\ jobs = Unset
    /\ initial_jobs = Unset
    /\ min_window_size = Unset
    /\ partitions = Unset
    /\ time = Unset
    /\ count = Unset
    /\ windows = Unset
    /\ last_step = "none"
    /\ network = Unset
    /\ total_duration = Unset
    /\ flow_value = Unset
    /\ call = Unset
    /\ ret = Unset

\* the objects of a list, read through the heap
Deref(h, ids) == Tuple([i \in DOMAIN ids |-> h[ids[i]]])

\* self.jobs = jobs: the working list is the caller's list
alias(h, ids) == [heap |-> h, ids |-> ids]

\* deepcopy(jobs): fresh objects with the same field values
deepcopy(h, ids) ==
    LET n    == Len(ids)
        base == Cardinality(DOMAIN h)
    IN  [heap |-> Tuple([o \in 1..(base + n) |->
                            IF o <= base THEN h[o] ELSE h[ids[o - base]]]),
         ids  |-> Tuple([i \in 1..n |-> base + i])]

\* the heap after the objects of list `ids` take the field values `js`
Store(h, ids, js) ==
    Tuple([o \in DOMAIN h |->
              IF \E i \in DOMAIN ids : ids[i] = o
              THEN js[CHOOSE i \in DOMAIN ids : ids[i] = o]
              ELSE h[o]])

Orderings(S) ==
    {q \in [1..Cardinality(S) -> S] : \A x \in S : \E k \in DOMAIN q : q[k] = x}

\* timestamps of __find_windows (a sorted list; here its set of elements)
Timestamps(js) == JobStarts(js) \cup JobFinishes(js)

WJobs == Deref(heap, jobs)

\* the loop condition of __find_windows
LoopCond ==
    Le(Add(time, min_window_size), MaxOf(Timestamps(WJobs)))

\* possible_windows of one iteration of the loop
possible_windows ==
    get_acceptable_following_windows(time, WJobs, min_window_size)

\* build, up to the first test of the loop condition.  list(set(...)) fixes
\* the order of self.partitions; the order of a set is unspecified.
Build(d) ==
    /\ pc = "unbuilt"
    /\ \E c \in {deepcopy(heap, caller_jobs)} :
           /\ heap' = c.heap
           /\ jobs' = c.ids
           /\ time' = MinOf(Timestamps(Deref(c.heap, c.ids)))
    /\ count' = 0
    /\ initial_jobs' = caller_jobs
    /\ min_window_size' = d
    /\ partitions' \in
           Orderings({heap[caller_jobs[i]].partition :
                            i \in DOMAIN caller_jobs})
    /\ windows' = <<>>
    /\ pc' = "find_windows"
    /\ UNCHANGED <<caller_jobs, given, cfg, last_step, network,
                   total_duration, flow_value, call, ret>>

\* one iteration of the loop, selection branch
SelectionStep ==
    /\ pc = "find_windows"
    /\ LoopCond
    /\ Len(possible_windows) > 1
    /\ \E window \in find_best_window(cfg, WJobs, partitions,
                                      Range(possible_windows), time) :
          /\ heap' = Store(heap, jobs, recalc_jobs(cfg, WJobs, window, time))
          /\ time' = window.finish
          /\ windows' = Append(windows, window)
    /\ count' = count + 1
    /\ last_step' = "selection"
    /\ UNCHANGED <<caller_jobs, given, cfg, pc, jobs, initial_jobs,
                   min_window_size, partitions, network, total_duration,
                   flow_value, call, ret>>

\* the end of the sub-interval as the next timestamp alone
FallbackFinishNext == MinOf({t \in Timestamps(WJobs) : Lt(time, t)})

\* the end of the sub-interval the fallback branch splits
FallbackFinish ==
    Max(Add(time, min_window_size),
        MinOf({t \in Timestamps(WJobs) : Lt(time, t)}))

FallbackWindows ==
    split_subinterval_by_windows(cfg, WJobs, partitions, min_window_size,
                                 Interval(time, FallbackFinish))

\* one iteration of the loop, fallback branch
FallbackStep ==
    /\ pc = "find_windows"
    /\ LoopCond
    /\ Len(possible_windows) <= 1
    /\ \E ws \in {FallbackWindows} :
       \E new_time \in {MaxFinish(ws, time)} :
           /\ heap' = Store(heap, jobs, RecalcAll(cfg, WJobs, ws, time))
           /\ windows' = windows \o ws
           /\ time' = IF new_time = time THEN FallbackFinish ELSE new_time
           /\ last_step' = IF ws = <<>> THEN "fallback_empty" ELSE "fallback"
    /\ count' = count + 1
    /\ UNCHANGED <<caller_jobs, given, cfg, pc, jobs, initial_jobs,
                   min_window_size, partitions, network, total_duration,
                   flow_value, call, ret>>

\* the loop ends; __build_network and __find_schedule
Finish ==
    /\ pc = "find_windows"
    /\ ~LoopCond
    /\ \E net \in {build_network(Deref(heap, initial_jobs), windows)} :
           /\ network' = net
           /\ total_duration' = SumSeq(net.source_cap)
           /\ flow_value' = MaxFlowValue(net)
    /\ pc' = "built"
    /\ UNCHANGED <<heap, caller_jobs, given, cfg, jobs, initial_jobs,
                   min_window_size, partitions, time, count, windows,
                   last_step, call, ret>>

Next ==
    \/ \E d \in 1..MaxMinWindow : Build(R(d))
    \/ SelectionStep
    \/ FallbackStep
    \/ Finish

Spec == Init /\ [][Next]_vars

(***************************************************************************)
(* Properties of build.                                                    *)
(***************************************************************************)
Started == pc \in {"find_windows", "built"}

\* two intervals share more than a point
Overlap(a, b) == Lt(Max(a.start, b.start), Min(a.finish, b.finish))

\* the windows a step appends to the list
NewWindows == SubSeq(windows', Len(windows) + 1, Len(windows'))

\* C1: no two distinct windows of HybridSchedule.windows overlap: they
\* intersect in an interval of length zero or not at all, whichever branch
\* (selection or fallback) emitted them.
C1_NoOverlap ==
    Started =>
        \A i, j \in DOMAIN windows :
            i # j => ~Overlap(windows[i], windows[j])

\* a finished build whose list holds two windows that touch in a point, one
\* of them emitted by a fallback step
C1_Witness ==
    /\ pc = "built"
    /\ last_step = "fallback"
    /\ \E i, j \in DOMAIN windows : windows[i].finish = windows[j].start

\* C2: build never changes a field of a job object of the caller's list;
\* recalculation touches the deep-copied working set only, and the
\* Source->Job capacities are the original durations.
C2_CallerJobsUntouched ==
    /\ Started => Deref(heap, caller_jobs) = given
    /\ pc = "built" =>
          network.source_cap = Tuple([i \in DOMAIN given |-> given[i].duration])

\* a finished build whose recalculation changed a working duration
C2_Witness ==
    /\ pc = "built"
    /\ \E i \in DOMAIN jobs : heap[jobs[i]].duration # given[i].duration

\* C3: the loop terminates: every iteration, selection or fallback (also a
\* fallback that emits nothing), advances the cursor by at least
\* min_window_size, so that after `count` iterations the cursor stands at
\* least count * min_window_size past the first timestamp; an iteration runs
\* only while time + min_window_size <= max(all job finishes), and the loop
\* stops at the first cursor with time + min_window_size beyond it.
C3_Step ==
    /\ (pc = "find_windows" /\ pc' = "find_windows") =>
          /\ Le(Add(time, min_window_size), MaxOf(JobFinishes(given)))
          /\ Le(Add(time, min_window_size), time')
          /\ count' = count + 1
          /\ Le(Mul(R(count'), min_window_size),
                Sub(time', MinOf(JobStarts(given))))
    /\ (pc = "find_windows" /\ pc' = "built") =>
          Lt(MaxOf(JobFinishes(given)), Add(time, min_window_size))

C3_Terminates == [][C3_Step]_vars

\* a finished build whose last iteration was a fallback that emitted nothing
C3_Witness ==
    /\ pc = "built"
    /\ last_step = "fallback_empty"

\* C4 as claimed: every window of the list starts no earlier than the finish
\* of the window that precedes it in the list.
C4_ListOrdered ==
    Started =>
        \A i \in 1..(Len(windows) - 1) :
            Le(windows[i].finish, windows[i + 1].start)

\* C4 as amended: the windows of different iterations are ordered in time:
\* every window an iteration appends starts no earlier than the finish of
\* every window appended by an earlier iteration.
C4_OrderedAcrossSteps ==
    [][pc = "find_windows" =>
          \A i \in DOMAIN windows : \A j \in DOMAIN NewWindows :
              Le(windows[i].finish, NewWindows[j].start)]_vars

\* a finished build of two iterations or more, with two neighbours of the
\* list out of time order
C4_Witness ==
    /\ pc = "built"
    /\ \E i \in 1..(Len(windows) - 1) :
          /\ Lt(windows[i + 1].start, windows[i].finish)
          /\ \E k \in DOMAIN windows :
                Le(windows[i].finish, windows[k].start)

\* the instants at which the timeline must be taken up by a window: the
\* first job start and the finish of every window
TakeUpPoints(ws) ==
    {MinOf(JobStarts(given))} \cup {ws[i].finish : i \in DOMAIN ws}

\* C5 as claimed: the windows cover the timeline from the minimum job start
\* to the final cursor: a window starts at the minimum job start, and a
\* window starts exactly where each window finishes, up to the cursor.
C5_Covered ==
    pc = "built" =>
        \A t \in TakeUpPoints(windows) :
            Lt(t, time) => \E i \in DOMAIN windows : windows[i].start = t

\* C5 as amended, iteration by iteration: a window chosen by selection
\* starts in [cursor, cursor + min_window_size) and the cursor moves to its
\* finish; the windows of a fallback step that emits any tile
\* [cursor, new cursor) without a gap; a fallback step that emits nothing
\* only moves the cursor.
C5_StepCover ==
    [][(pc = "find_windows" /\ pc' = "find_windows") =>
          /\ last_step' = "selection" =>
                /\ Len(NewWindows) = 1
                /\ Le(time, NewWindows[1].start)
                /\ Lt(NewWindows[1].start, Add(time, min_window_size))
                /\ time' = NewWindows[1].finish
          /\ last_step' = "fallback" =>
                /\ NewWindows # <<>>
                /\ \A j \in DOMAIN NewWindows :
                      /\ Le(time, NewWindows[j].start)
                      /\ Le(NewWindows[j].finish, time')
                /\ \A t \in {time} \cup
                             {NewWindows[j].finish : j \in DOMAIN NewWindows} :
                      Lt(t, time') =>
                          \E j \in DOMAIN NewWindows : NewWindows[j].start = t
          /\ last_step' = "fallback_empty" => NewWindows = <<>>]_vars

\* a finished build with a window that starts after the first job start and
\* at no other window's finish: a gap lies before it
C5_Witness ==
    /\ pc = "built"
    /\ Len(windows) >= 2
    /\ \E i \in DOMAIN windows :
          /\ Lt(MinOf(JobStarts(given)), windows[i].start)
          /\ \A j \in DOMAIN windows : windows[j].finish # windows[i].start

\* C10: a Job->Window edge exists exactly when the original job's interval
\* contains the window (within 1e-3) and their partitions are equal; the
\* Source->Job capacity is the job's original duration, the Window->Sink
\* capacity the window's length; so the flow is at most the total of the
\* durations and at most the total of the window lengths.
C10_Network ==
    pc = "built" =>
        /\ network.edges =
              {e \in (DOMAIN given) \X (DOMAIN windows) :
                  /\ Le(given[e[1]].start, Add(windows[e[2]].start, Eps))
                  /\ Le(Sub(windows[e[2]].finish, Eps), given[e[1]].finish)
                  /\ given[e[1]].partition = windows[e[2]].partition}
        /\ DOMAIN network.source_cap = DOMAIN given
        /\ \A i \in DOMAIN given :
              network.source_cap[i] = given[i].duration
        /\ DOMAIN network.sink_cap = DOMAIN windows
        /\ \A j \in DOMAIN windows :
              network.sink_cap[j] = Sub(windows[j].finish, windows[j].start)
        /\ Le(flow_value, SumSeq(network.source_cap))
        /\ Le(flow_value, SumSeq(network.sink_cap))
        /\ total_duration = SumSeq(network.source_cap)

\* a finished build with an edge, with a job that contains a window of
\* another partition, and with a recalculated working duration
C10_Witness ==
    /\ pc = "built"
    /\ network.edges # {}
    /\ \E i \in DOMAIN given : \E j \in DOMAIN windows :
          /\ contains(given[i], windows[j])
          /\ given[i].partition # windows[j].partition
    /\ \E i \in DOMAIN jobs : heap[jobs[i]].duration # given[i].duration
    /\ Lt(R(0), flow_value)

(***************************************************************************)
(* The module functions called directly, as the unit tests call them: the  *)
(* arguments are drawn in the initial state, the action is the call.       *)
(***************************************************************************)
\* no HybridSchedule instance takes part in a direct call
NoInstance ==
    /\ heap = Unset
    /\ caller_jobs = Unset
    /\ given = Unset
    /\ cfg = Unset
    /\ jobs = Unset
    /\ initial_jobs = Unset
    /\ min_window_size = Unset
    /\ partitions = Unset
    /\ time = Unset
    /\ count = Unset
    /\ windows = Unset
    /\ last_step = "none"
    /\ network = Unset
    /\ total_duration = Unset
    /\ flow_value = Unset

instance_vars ==
    <<heap, caller_jobs, given, cfg, jobs, initial_jobs, min_window_size,
      partitions, time, count, windows, last_step, network, total_duration,
      flow_value>>

\* FindWindowsTests.setUp
TestJobs ==
    <<Job(R(0), R(10), 0, R(5)), Job(R(5), R(15), 0, R(5)),
      Job(R(10), R(20), 1, R(5)), Job(R(20), R(23), 2, R(2)),
      Job(R(25), R(30), 2, R(4)), Job(R(40), R(50), 1, R(2)),
      Job(R(40), R(50), 2, R(2)), Job(R(40), R(60), 1, R(5)),
      Job(R(80), R(100), 0, R(10)), Job(R(90), R(100), 0, R(8))>>

\* the calls of FindWindowsTests: (time, min_window_size)
TestCandidateCalls ==
    {[time |-> R(c[1]), jobs |-> TestJobs, d |-> R(c[2])] :
        c \in {<<19, 5>>, <<2, 24>>, <<0, 5>>, <<0, 6>>, <<0, 10>>,
                <<35, 10>>, <<35, 8>>, <<29, 10>>, <<31, 2>>, <<25, 5>>}}

\* window sizes of the direct calls: the integers and one proper fraction
CandidateSizes == {Frac(1, 2)} \cup {R(d) : d \in 1..MaxMinWindow}

CandidateCalls ==
    [time : {R(t) : t \in 0..MaxTime}, jobs : JobLists, d : CandidateSizes]
        \cup TestCandidateCalls

CandInit ==
    /\ NoInstance
    /\ pc = "call"
    /\ call \in CandidateCalls
    /\ ret = Unset

\* list(get_acceptable_following_windows(time, jobs, min_window_size))
CallCandidates ==
    /\ pc = "call"
    /\ ret' = get_acceptable_following_windows(call.time, call.jobs, call.d)
    /\ pc' = "returned"
    /\ UNCHANGED <<call, instance_vars>>

CandNext == CallCandidates

SpecCand == CandInit /\ [][CandNext]_vars

\* DistributeIntervalsTest: test_full_capacity, test_common, test_not_full
TestDistributeCalls ==
    {[interval     |-> Interval(R(0), R(10)),
      distribution |-> <<R(3), R(4), R(2), R(1)>>,
      max_sizes    |-> <<R(4), R(3), R(2), R(2)>>,
      min_sizes    |-> <<R(2), R(2), R(2), R(2)>>],
     [interval     |-> Interval(R(-7), R(7)),
      distribution |-> <<Frac(3, 2), R(4), R(5), Frac(3, 2), R(2)>>,
      max_sizes    |-> <<R(10), R(8), R(7), R(5), R(4)>>,
      min_sizes    |-> <<R(5), R(5), R(4), R(4), R(3)>>],
     [interval     |-> Interval(R(0), Frac(3, 2)),
      distribution |-> <<Frac(101, 100), Frac(99, 100)>>,
      max_sizes    |-> <<R(1), R(1)>>,
      min_sizes    |-> <<R(1), R(1)>>]}

\* weights are integers in 0..MaxWeight, sizes integers in 0..MaxTime
SizeLists(n, max) == {Tuple(f) : f \in [1..n -> {R(k) : k \in 0..max}]}

DistributeCalls ==
    UNION {[interval     : {Interval(R(a), R(b)) :
                               a \in 0..MaxTime, b \in 0..MaxTime},
            distribution : SizeLists(n, MaxWeight),
            max_sizes    : SizeLists(n, MaxTime),
            min_sizes    : SizeLists(n, MaxTime)] : n \in 1..MaxPartitions}

DistInit ==
    /\ NoInstance
    /\ pc = "call"
    /\ call \in {c \in DistributeCalls :
                     IntervalOk(c.interval.start, c.interval.finish)}
                \cup TestDistributeCalls
    /\ ret = Unset

\* distribute_intervals(interval, distribution, max_sizes, min_sizes)
CallDistribute ==
    /\ pc = "call"
    /\ ret' = distribute_intervals(call.interval, call.distribution,
                                   call.max_sizes, call.min_sizes)
    /\ pc' = "returned"
    /\ UNCHANGED <<call, instance_vars>>

DistNext == CallDistribute

SpecDist == DistInit /\ [][DistNext]_vars

(***************************************************************************)
(* Properties of the module functions.                                     *)
(***************************************************************************)
CandidateCalled == pc = "returned" /\ "d" \in DOMAIN call
DistributeCalled == pc = "returned" /\ "interval" \in DOMAIN call

\* the candidate starts and finishes as the specification words them
StartsOf(c) ==
    {t \in JobStarts(c.jobs) : Le(c.time, t) /\ Lt(t, Add(c.time, c.d))}
        \cup {c.time}
FinishesOf(c, st) ==
    {t \in JobStarts(c.jobs) \cup JobFinishes(c.jobs) :
        Le(Add(st, c.d), t) /\ Lt(t, Add(Add(st, c.d), c.d))}
        \cup {Add(st, c.d)}

\* C6: get_acceptable_following_windows(time, jobs, d) yields exactly the
\* pairs (s, f) with s in S and f in F(s), each once; (time, time + d) is
\* among them and the result is never empty; for the test's job set,
\* time = 19 and d = 5 give exactly (19,24), (19,25), (20,25).
C6_Candidates ==
    CandidateCalled =>
        /\ Range(ret) =
              UNION {{<<st, f>> : f \in FinishesOf(call, st)} :
                        st \in StartsOf(call)}
        /\ \A i, j \in DOMAIN ret : i # j => ret[i] # ret[j]
        /\ <<call.time, Add(call.time, call.d)>> \in Range(ret)
        /\ ret # <<>>
        /\ (call.jobs = TestJobs /\ call.time = R(19) /\ call.d = R(5)) =>
              Range(ret) = {<<R(19), R(24)>>, <<R(19), R(25)>>,
                            <<R(20), R(25)>>}

\* the test's call has returned its three candidates
C6_Witness ==
    /\ CandidateCalled
    /\ call.jobs = TestJobs /\ call.time = R(19) /\ call.d = R(5)
    /\ Len(ret) = 3

\* C7: every candidate (s, f) has d <= f - s < 2d and time <= s < time + d.
C7_CandidateBounds ==
    CandidateCalled =>
        \A k \in DOMAIN ret :
            /\ Le(call.d, Sub(ret[k][2], ret[k][1]))
            /\ Lt(Sub(ret[k][2], ret[k][1]), Mul(R(2), call.d))
            /\ Le(call.time, ret[k][1])
            /\ Lt(ret[k][1], Add(call.time, call.d))

\* a call that returned a candidate longer than d that starts after `time`
C7_Witness ==
    /\ CandidateCalled
    /\ \E k \in DOMAIN ret :
          /\ Lt(call.time, ret[k][1])
          /\ Lt(call.d, Sub(ret[k][2], ret[k][1]))

\* the partitions that were given a sub-interval
Placed == {p \in DOMAIN ret : ret[p] # None}

\* C8: the sub-intervals distribute_intervals returns are pairwise disjoint,
\* lie inside the input interval, and their lengths sum to at most its
\* length.
C8_Disjoint ==
    DistributeCalled =>
        /\ \A p \in Placed :
              /\ Le(call.interval.start, ret[p].start)
              /\ Le(ret[p].start, ret[p].finish)
              /\ Le(ret[p].finish, call.interval.finish)
        /\ \A p, q \in Placed : p # q => ~Overlap(ret[p], ret[q])
        /\ Le(SumSeq(Tuple([p \in DOMAIN ret |->
                         IF ret[p] = None THEN R(0)
                         ELSE Sub(ret[p].finish, ret[p].start)])),
              Sub(call.interval.finish, call.interval.start))

\* a call that placed two partitions and left one out
C8_Witness ==
    /\ DistributeCalled
    /\ Cardinality(Placed) >= 2
    /\ Placed # DOMAIN ret

\* C9: every sub-interval returned for partition p is at least min_sizes[p]
\* long, also when max_sizes[p] < min_sizes[p] or the weight of p is zero.
C9_MinSize ==
    DistributeCalled =>
        \A p \in Placed :
            Le(call.min_sizes[p], Sub(ret[p].finish, ret[p].start))

\* a call that placed a partition of weight zero whose max_size is below its
\* min_size
C9_Witness ==
    /\ DistributeCalled
    /\ \E p \in Placed :
          /\ IsZero(call.distribution[p])
          /\ Lt(call.max_sizes[p], call.min_sizes[p])

(***************************************************************************)
(* rate and exists.                                                        *)
(***************************************************************************)
\* the shortfall alone, without the leading 1.0
rate_shortfall(flow, total) == Div(Sub(flow, total), total)

\* rate(): 1.0 + (flow_value - total_duration) / total_duration, for
\* total_duration # 0 (Python raises ZeroDivisionError otherwise)
rate(flow, total) == Add(R(1), Div(Sub(flow, total), total))

\* exists()
exists(flow, total) == Le(Frac(99, 100), rate(flow, total))

\* the windows a set A of original jobs can send work to
MatchingWindows(A) ==
    {j \in DOMAIN windows :
        \E i \in A : /\ contains(given[i], windows[j])
                     /\ given[i].partition = windows[j].partition}

\* every job's original duration can be routed into matching windows: the
\* jobs of every set A fit into the windows that match a job of A
FullyRoutable ==
    \A A \in SUBSET (DOMAIN given) :
        Le(SumOver(A, [i \in DOMAIN given |-> given[i].duration]),
           SumOver(MatchingWindows(A),
                   [j \in DOMAIN windows |-> length(windows[j])]))

\* C11: for a built schedule with total_duration > 0 the maximum flow is at
\* most total_duration and rate() <= 1; rate() = 1 exactly when the flow
\* saturates every Source->Job edge, which is when every job's original
\* duration is fully routable; otherwise rate() = max_flow / total_duration
\* is below 1.
C11_Rate ==
    (pc = "built" /\ Lt(R(0), total_duration)) =>
        /\ Le(flow_value, total_duration)
        /\ Le(rate(flow_value, total_duration), R(1))
        /\ rate(flow_value, total_duration) = Div(flow_value, total_duration)
        /\ (rate(flow_value, total_duration) = R(1))
               <=> (flow_value = SumSeq(network.source_cap))
        /\ (rate(flow_value, total_duration) = R(1)) <=> FullyRoutable
        /\ exists(flow_value, total_duration)
               <=> Le(Mul(Frac(99, 100), total_duration), flow_value)

\* a built schedule that routes a part of the work, but not all of it
C11_Witness ==
    /\ pc = "built"
    /\ Lt(R(0), flow_value)
    /\ Lt(flow_value, total_duration)
    /\ Lt(rate(flow_value, total_duration), R(1))

(***************************************************************************)
(* The builds of one job list when self.partitions lists the labels in     *)
(* ascending order: what a run without dependence on the hash order of the *)
(* labels produces.  The order of the candidate sets stays free.           *)
(***************************************************************************)
\* list(set(...)) when the set iterates in ascending order
SortedPartitions(js) ==
    CHOOSE q \in Orderings({js[i].partition : i \in DOMAIN js}) :
        \A i, j \in DOMAIN q : i < j => q[i] < q[j]

\* the state of the loop of __find_windows after one fallback iteration
FallbackResult(conf, js, now, fin, ws, nw, new_time) ==
    [js   |-> RecalcAll(conf, js, nw, now),
     time |-> IF new_time = now THEN fin ELSE new_time,
     ws   |-> ws \o nw]

FallbackOver(conf, js, parts, d, now, fin, ws) ==
    LET nw == split_subinterval_by_windows(conf, js, parts, d,
                                           Interval(now, fin))
    IN  FallbackResult(conf, js, now, fin, ws, nw, MaxFinish(nw, now))

\* ... and after one selection iteration that picks window w
SelectionResult(conf, js, now, ws, w) ==
    [js |-> recalc_jobs(conf, js, w, now), time |-> w.finish,
     ws |-> Append(ws, w)]

\* one iteration of the loop of __find_windows: the states it can lead to
Iteration(conf, js, parts, d, now, ws, pw) ==
    IF Len(pw) > 1
    THEN {SelectionResult(conf, js, now, ws, w) :
             w \in find_best_window(conf, js, parts, Range(pw), now)}
    ELSE {FallbackOver(conf, js, parts, d, now,
             Max(Add(now, d), MinOf({ts \in Timestamps(js) : Lt(now, ts)})),
             ws)}

\* the loop of __find_windows, run to its end: the lists it can produce
RECURSIVE FindWindowsFrom(_, _, _, _)
FindWindowsFrom(conf, parts, d, st) ==
    IF Lt(MaxOf(Timestamps(st.js)), Add(st.time, d)) THEN {st.ws}
    ELSE UNION {FindWindowsFrom(conf, parts, d, nxt) :
                   nxt \in Iteration(conf, st.js, parts, d, st.time, st.ws,
                             get_acceptable_following_windows(
                                 st.time, st.js, d))}

\* self.windows of a build of `js` with min_window_size d
WindowsOfBuild(conf, js, d) ==
    FindWindowsFrom(conf, SortedPartitions(js), d,
        [js |-> js, time |-> MinOf(Timestamps(js)), ws |-> <<>>])

\* what rate() looks at, for the windows ws: <<flow_value, total_duration>>
FlowOfWindows(js, ws) ==
    <<MaxFlowValue(build_network(js, ws)),
      SumSeq(build_network(js, ws).source_cap)>>

\* C12: two instances with the same configuration, the same job list and
\* the same min_window_size produce the same list of windows and the same
\* rate(); the result depends on nothing but the inputs, in particular not
\* on the order in which the partition set iterates: every build ends with
\* a list of windows, and with the flow rate() is computed from, of a build
\* whose partition set iterates in ascending order.
C12_Deterministic ==
    pc = "built" =>
        /\ windows \in WindowsOfBuild(cfg, given, min_window_size)
        /\ <<flow_value, total_duration>> \in
              {FlowOfWindows(given, ws) :
                  ws \in WindowsOfBuild(cfg, given, min_window_size)}

(***************************************************************************)
(* Attribute access on a HybridSchedule (__getattr__ runs only for a name  *)
(* that normal lookup does not find).                                      *)
(***************************************************************************)
\* the instance attributes set by __init__ and, in turn, by build
InstanceAttrs(p) ==
    {"score", "window_score", "verbose", "recalc_jobs"}
    \cup (IF p \in {"find_windows", "built"}
          THEN {"jobs", "initial_jobs", "min_window_size", "partitions",
                "partitions_count"}
          ELSE {})
    \cup (IF p = "built"
          THEN {"windows", "network", "total_duration", "residual_network"}
          ELSE {})

\* the names __getattr__ answers with the pre-build message
PreBuildAttrs ==
    {"jobs", "windows", "network", "jobs_distribution", "partitions_count"}

\* reading self.<attr>: "ok", or the AttributeError that __getattr__ raises
getattr(p, attr) ==
    IF attr \in InstanceAttrs(p) THEN "ok"
    ELSE IF attr \in PreBuildAttrs THEN "PreBuildError"
    ELSE "NoAttributeError"

\* calling rate(): it reads residual_network, then total_duration, and
\* divides by total_duration
rate_call(p, total) ==
    IF getattr(p, "residual_network") # "ok"
    THEN getattr(p, "residual_network")
    ELSE IF getattr(p, "total_duration") # "ok"
    THEN getattr(p, "total_duration")
    ELSE IF IsZero(total) THEN "ZeroDivisionError"
    ELSE "ok"

\* calling exists(): it calls rate()
exists_call(p, total) == rate_call(p, total)

\* C13: before build has run, reading windows, reading network and calling
\* rate() or exists() each fail with the dedicated pre-build error, not
\* with the generic missing-attribute error; after build they all succeed.
C13_PreBuildErrors ==
    /\ pc = "unbuilt" =>
          /\ getattr(pc, "windows") = "PreBuildError"
          /\ getattr(pc, "network") = "PreBuildError"
          /\ rate_call(pc, total_duration) = "PreBuildError"
          /\ exists_call(pc, total_duration) = "PreBuildError"
    /\ pc = "built" =>
          /\ getattr(pc, "windows") = "ok"
          /\ getattr(pc, "network") = "ok"
          /\ rate_call(pc, total_duration) = "ok"
          /\ exists_call(pc, total_duration) = "ok"

(***************************************************************************)
(* The entities and the job feed, called directly.  A call returns a value *)
(* or raises: Returned(v) or Raised(e).                                    *)
(***************************************************************************)
Returned(v) == [raised |-> "", value |-> v]
Raised(e) == [raised |-> e]

\* Interval(start, finish)
new_Interval(start, finish) ==
    IF Lt(finish, start) THEN Raised("IntervalError")
    ELSE Returned(Interval(start, finish))

\* Window(start, finish, partition)
new_Window(start, finish, partition) ==
    IF new_Interval(start, finish).raised # ""
    THEN new_Interval(start, finish)
    ELSE Returned(Window(start, finish, partition))

\* Job.__init__ with the duration checked before the interval
new_Job_duration_first(start, finish, partition, duration) ==
    IF Lt(duration, R(0)) THEN Raised("ValueError")
    ELSE IF Lt(finish, start) THEN Raised("IntervalError")
    ELSE IF Lt(Sub(finish, start), duration) THEN Raised("ValueError")
    ELSE Returned(Job(start, finish, partition, duration))

\* Job(start, finish, partition, duration)
new_Job(start, finish, partition, duration) ==
    IF new_Interval(start, finish).raised # ""
    THEN new_Interval(start, finish)
    ELSE IF Lt(duration, R(0)) THEN Raised("ValueError")
    ELSE IF Lt(Sub(finish, start), duration) THEN Raised("ValueError")
    ELSE Returned(Job(start, finish, partition, duration))

\* the numbers handed to the constructors: the grid, -1 and two fractions
EntityValues ==
    {R(k) : k \in -1..MaxTime} \cup {Frac(1, 2), Frac(3, 2)}

ConstructorCalls ==
    [op : {"Interval"}, start : EntityValues, finish : EntityValues]
    \cup [op : {"Window"}, start : EntityValues, finish : EntityValues,
          partition : 1..MaxPartitions]
    \cup [op : {"Job"}, start : EntityValues, finish : EntityValues,
          partition : 1..MaxPartitions, duration : EntityValues]

\* the intervals of BasicEntitiesTests.test_contains
TestIntervals ==
    {Interval(R(0), R(3)), Interval(R(0), R(1)), Interval(R(0), R(2)),
     Job(R(1), R(3), 1, R(1)), Window(R(1), R(2), 2),
     Interval(Frac(3, 2), Frac(3, 2))}

\* by how much the other interval overhangs on a side (negative: it stays
\* inside): around the tolerance of contains
Overhangs ==
    {R(-1), R(0), Frac(1, 2000), Frac(1, 1000), Frac(1, 500), R(1)}

\* the three kinds of interval over the same bounds
KindsOf(s, f) == {Interval(s, f), Window(s, f, 1), Job(s, f, 1, R(0))}

ContainsCalls ==
    {c \in [op : {"contains"},
            self : UNION {KindsOf(R(s), R(f)) :
                             s \in 0..MaxTime, f \in 0..MaxTime},
            left : Overhangs, right : Overhangs] :
        /\ IntervalOk(c.self.start, c.self.finish)
        /\ IntervalOk(Sub(c.self.start, c.left),
                      Add(c.self.finish, c.right))}
    \cup [op : {"contains"}, self : TestIntervals, left : {R(0)},
          right : {R(0)}]

\* the other interval of a contains call: self, overhanging by left and
\* right
OtherOf(c) == [c.self EXCEPT !.start = Sub(@, c.left),
                             !.finish = Add(@, c.right)]

\* float(token) on the tokens of the feed: the literals and their values;
\* any other token raises ValueError
FloatLiterals == {"0", "1", "2", "-1", "0.5"}

FloatValue(token) ==
    CASE token = "0"   -> R(0)
      [] token = "1"   -> R(1)
      [] token = "2"   -> R(2)
      [] token = "-1"  -> R(-1)
      [] token = "0.5" -> Frac(1, 2)

float(token) ==
    IF token \in FloatLiterals THEN Returned(FloatValue(token))
    ELSE Raised("ValueError")

\* Job(float(p[0]), float(p[1]), p[2], float(p[3])) for the fields p of a
\* non-blank line; the arguments are evaluated from left to right, and a
\* missing field raises IndexError.  Fields after the fourth are not read.
JobOfLine(p) ==
    IF float(p[1]).raised # "" THEN float(p[1])
    ELSE IF Len(p) < 2 THEN Raised("IndexError")
    ELSE IF float(p[2]).raised # "" THEN float(p[2])
    ELSE IF Len(p) < 4 THEN Raised("IndexError")
    ELSE IF float(p[4]).raised # "" THEN float(p[4])
    ELSE new_Job(float(p[1]).value, float(p[2]).value, p[3],
                 float(p[4]).value)

\* the loop of read_input_jobs over the lines of the feed, each line given
\* as line.strip().split()
RECURSIVE ReadLines(_, _)
ReadLines(lines, acc) ==
    IF lines = <<>> THEN Returned(acc)
    ELSE IF Head(lines) = <<>> THEN ReadLines(Tail(lines), acc)
    ELSE IF JobOfLine(Head(lines)).raised # "" THEN JobOfLine(Head(lines))
    ELSE ReadLines(Tail(lines), Append(acc, JobOfLine(Head(lines)).value))

read_input_jobs(lines) == ReadLines(lines, <<>>)

\* the lines of the feed, each as its list of fields: four fields with
\* numeric and non-numeric tokens, their prefixes (the blank line among
\* them), and the four fields followed by a fifth
FourFields ==
    {<<s, f, "p", du>> : s \in {"0", "2", "x"}, f \in {"1", "x"},
                         du \in {"0", "0.5", "1", "2", "-1", "x"}}

FeedLines ==
    {SubSeq(l, 1, n) : l \in FourFields, n \in 0..4}
    \cup {Append(l, "z") : l \in FourFields}

\* lines that read_input_jobs accepts or skips
GoodLines == {<<>>, <<"0", "1", "p", "1">>, <<"0", "2", "q", "0.5">>}

\* feeds of MaxLines lines at most: good lines, then any line
Feeds ==
    {Tuple(pre) \o <<l>> :
        pre \in UNION {[1..n -> GoodLines] : n \in 0..(MaxLines - 1)},
        l \in FeedLines}

FeedCalls == [op : {"read_input_jobs"}, lines : Feeds]

EntInit ==
    /\ NoInstance
    /\ pc = "call"
    /\ call \in ConstructorCalls \cup ContainsCalls \cup FeedCalls
    /\ ret = Unset

CallInterval ==
    /\ pc = "call"
    /\ call.op = "Interval"
    /\ ret' = new_Interval(call.start, call.finish)
    /\ pc' = "returned"
    /\ UNCHANGED <<call, instance_vars>>

CallWindow ==
    /\ pc = "call"
    /\ call.op = "Window"
    /\ ret' = new_Window(call.start, call.finish, call.partition)
    /\ pc' = "returned"
    /\ UNCHANGED <<call, instance_vars>>

CallJob ==
    /\ pc = "call"
    /\ call.op = "Job"
    /\ ret' = new_Job(call.start, call.finish, call.partition, call.duration)
    /\ pc' = "returned"
    /\ UNCHANGED <<call, instance_vars>>

\* self.contains(other)
CallContains ==
    /\ pc = "call"
    /\ call.op = "contains"
    /\ ret' = Returned(contains(call.self, OtherOf(call)))
    /\ pc' = "returned"
    /\ UNCHANGED <<call, instance_vars>>

CallReadInputJobs ==
    /\ pc = "call"
    /\ call.op = "read_input_jobs"
    /\ ret' = read_input_jobs(call.lines)
    /\ pc' = "returned"
    /\ UNCHANGED <<call, instance_vars>>

EntNext ==
    \/ CallInterval
    \/ CallWindow
    \/ CallJob
    \/ CallContains
    \/ CallReadInputJobs

SpecEnt == EntInit /\ [][EntNext]_vars

(***************************************************************************)
(* Properties of the entities and of the job feed.                         *)
(***************************************************************************)
Constructed(op) == pc = "returned" /\ call.op = op

\* C14: construction succeeds exactly on valid values and never clamps.
\* Interval and Window succeed iff finish >= start (finish = start too),
\* with length finish - start, and fail with IntervalError otherwise; Job
\* succeeds iff finish >= start and 0 <= duration <= finish - start (both
\* ends included), fails with IntervalError when finish < start whatever
\* the duration, and with ValueError when only the duration is out of
\* range.  What is constructed holds the values handed over.
C14_Construction ==
    /\ (Constructed("Interval") \/ Constructed("Window")) =>
          /\ (ret.raised = "") <=> Le(call.start, call.finish)
          /\ ret.raised # "" => ret.raised = "IntervalError"
          /\ ret.raised = "" =>
                /\ ret.value.start = call.start
                /\ ret.value.finish = call.finish
                /\ length(ret.value) = Sub(call.finish, call.start)
                /\ Constructed("Window") =>
                      ret.value.partition = call.partition
    /\ Constructed("Job") =>
          /\ (ret.raised = "") <=>
                /\ Le(call.start, call.finish)
                /\ Le(R(0), call.duration)
                /\ Le(call.duration, Sub(call.finish, call.start))
          /\ Lt(call.finish, call.start) => ret.raised = "IntervalError"
          /\ (Le(call.start, call.finish) /\ ret.raised # "") =>
                ret.raised = "ValueError"
          /\ ret.raised = "" =>
                ret.value = [start |-> call.start, finish |-> call.finish,
                             partition |-> call.partition,
                             duration |-> call.duration]

\* a job constructed with duration = length > 0
C14_Witness ==
    /\ Constructed("Job")
    /\ ret.raised = ""
    /\ Lt(R(0), call.duration)
    /\ call.duration = Sub(call.finish, call.start)

\* C15: containment is reflexive and tolerant by 0.001: x.contains(x) holds
\* for every interval, zero-length ones included; a.contains(b) holds iff b
\* overhangs a by at most 0.001 on each side.
C15_Contains ==
    Constructed("contains") =>
        /\ (IsZero(call.left) /\ IsZero(call.right)) => ret.value
        /\ ret.value <=> (/\ Le(call.left, Frac(1, 1000))
                          /\ Le(call.right, Frac(1, 1000)))
        /\ ret.value <=>
              (/\ Le(call.self.start, Add(OtherOf(call).start, Frac(1, 1000)))
               /\ Le(Sub(OtherOf(call).finish, Frac(1, 1000)),
                     call.self.finish))

\* an interval that overhangs by exactly 0.001 on one side and is contained
C15_Witness ==
    /\ Constructed("contains")
    /\ call.left = Frac(1, 1000)
    /\ IsZero(call.right)
    /\ ret.value

\* a non-blank line that is not a job: its field count is not four, or its
\* start, finish or duration is not a number, or its values break the Job
\* invariant
Malformed(line) ==
    /\ line # <<>>
    /\ \/ Len(line) # 4
       \/ \E k \in {1, 2, 4} : line[k] \notin FloatLiterals
       \/ ~JobOk(FloatValue(line[1]), FloatValue(line[2]),
                 FloatValue(line[4]))

\* C16: read_input_jobs fails on every malformed line: a non-blank line
\* whose field count is not exactly four, a line with a non-numeric start,
\* finish or duration, and a line that violates the Job invariant.
C16_FeedRejected ==
    (/\ Constructed("read_input_jobs")
     /\ \E k \in DOMAIN call.lines : Malformed(call.lines[k]))
        => ret.raised # ""

(***************************************************************************)
(* Properties of the loop of __find_windows.                               *)
(***************************************************************************)
\* C17 as claimed: at the start of every iteration and at loop exit the
\* cursor equals the finish of the window emitted last, or the minimum job
\* start if none has been emitted.
C17_CursorAtLastFinish ==
    Started =>
        time = IF windows = <<>> THEN MinOf(JobStarts(given))
               ELSE windows[Len(windows)].finish

\* C17 as amended: the cursor is never before the finish of an emitted
\* window; it is the minimum job start before the first iteration, the
\* largest finish of the emitted windows after an iteration that emitted
\* any, and beyond every emitted finish after a fallback iteration that
\* emitted none.
C17_Cursor ==
    Started =>
        /\ \A i \in DOMAIN windows : Le(windows[i].finish, time)
        /\ last_step = "none" =>
              (windows = <<>> /\ time = MinOf(JobStarts(given)))
        /\ last_step \in {"selection", "fallback"} =>
              (/\ windows # <<>>
               /\ time = MaxOf({windows[i].finish : i \in DOMAIN windows}))
        /\ last_step = "fallback_empty" =>
              (/\ Lt(MinOf(JobStarts(given)), time)
               /\ \A i \in DOMAIN windows : Lt(windows[i].finish, time))

\* a finished build whose cursor stands beyond the finish of the window
\* emitted last, after a fallback that emitted nothing
C17_Witness ==
    /\ pc = "built"
    /\ last_step = "fallback_empty"
    /\ windows # <<>>
    /\ Lt(windows[Len(windows)].finish, time)

\* the smallest job start or finish strictly after the cursor
NextTimestamp == MinOf({t \in Timestamps(given) : Lt(time, t)})

FallbackTaken ==
    /\ pc = "find_windows"
    /\ pc' = "find_windows"
    /\ last_step' \in {"fallback", "fallback_empty"}

\* C18 as claimed: the interval the fallback branch hands to the distributor
\* is [time, next_timestamp), so the sub-windows of the step are what the
\* distributor returns for it, and if there are none the cursor advances to
\* next_timestamp.
C18_SubintervalToNext ==
    [][FallbackTaken =>
          /\ NewWindows =
                split_subinterval_by_windows(
                    cfg, WJobs, partitions, min_window_size,
                    Interval(time, NextTimestamp))
          /\ NewWindows = <<>> => time' = NextTimestamp]_vars

\* C18 as amended: the interval handed to the distributor is
\* [time, max(time + min_window_size, next_timestamp)], and if the
\* distributor produces no sub-window the cursor advances to its end.
C18_Subinterval ==
    [][FallbackTaken =>
          /\ NewWindows =
                split_subinterval_by_windows(
                    cfg, WJobs, partitions, min_window_size,
                    Interval(time, Max(Add(time, min_window_size),
                                       NextTimestamp)))
          /\ \A j \in DOMAIN NewWindows :
                /\ Le(time, NewWindows[j].start)
                /\ Le(NewWindows[j].finish,
                      Max(Add(time, min_window_size), NextTimestamp))
          /\ NewWindows = <<>> =>
                time' = Max(Add(time, min_window_size), NextTimestamp)]_vars

\* a finished build with a fallback step that emitted nothing and moved the
\* cursor by min_window_size, past a timestamp that lies in between
C18_Witness ==
    /\ pc = "built"
    /\ count = 1
    /\ last_step = "fallback_empty"
    /\ time = Add(MinOf(JobStarts(given)), min_window_size)
    /\ \E t \in Timestamps(given) :
          Lt(MinOf(JobStarts(given)), t) /\ Lt(t, time)

SelectionTaken ==
    /\ pc = "find_windows"
    /\ pc' = "find_windows"
    /\ last_step' = "selection"

\* the total window score of candidate c with partition k, over the working
\* jobs of the iteration
TotalScore(c, k) ==
    calculate_greedy_func(cfg, WJobs, Window(c[1], c[2], partitions[k]), time)

\* w is the first maximum when the candidates are tried in the order q
\* (outer loop) and the partitions in the order of self.partitions (inner)
FirstMaximum(w, q) ==
    \E i \in DOMAIN q : \E k \in DOMAIN partitions :
        /\ w = Window(q[i][1], q[i][2], partitions[k])
        /\ \A i2 \in DOMAIN q : \A k2 \in DOMAIN partitions :
              /\ Le(TotalScore(q[i2], k2), TotalScore(q[i], k))
              /\ (i2 < i \/ (i2 = i /\ k2 < k)) =>
                    Lt(TotalScore(q[i2], k2), TotalScore(q[i], k))

\* C19: with more than one candidate, the selection step emits a
\* (candidate, partition) pair whose total window score over the working
\* jobs is >= that of every other pair; among the pairs that attain the
\* maximum it is the first in iteration order, candidates outer and
\* partitions inner (the candidates in some order of their sets, the
\* partitions in the order of self.partitions); the cursor then equals the
\* window's finish.
C19_Selection ==
    [][SelectionTaken =>
          /\ Len(possible_windows) > 1
          /\ Len(NewWindows) = 1
          /\ \E q \in Orderings(Range(possible_windows)) :
                FirstMaximum(NewWindows[1], q)
          /\ time' = NewWindows[1].finish]_vars

\* a first selection step, without recalculation, that chose the first
\* partition of two whose totals tie
C19_Witness ==
    /\ pc = "find_windows"
    /\ count = 1
    /\ last_step = "selection"
    /\ cfg.recalc_jobs = R(0)
    /\ Len(partitions) = 2
    /\ windows[1].partition = partitions[1]
    /\ calculate_greedy_func(cfg, given, windows[1],
                             MinOf(JobStarts(given)))
          = calculate_greedy_func(
                cfg, given, [windows[1] EXCEPT !.partition = partitions[2]],
                MinOf(JobStarts(given)))

\* max(0, window_score) of working job j for the window w of this iteration
PositiveScore(js, w, j) ==
    Max(R(0), window_score(cfg, w, js[j], time))

PositiveTotal(js, w) ==
    SumSeq(Tuple([j \in DOMAIN js |-> PositiveScore(js, w, j)]))

\* the working durations after window w, as C20 states them
DurationsAfter(js, w, S) ==
    Tuple([j \in DOMAIN js |->
              IF Lt(S, Frac(1, 1000000)) THEN js[j].duration
              ELSE Max(Frac(1, 100),
                       Sub(js[j].duration,
                           Mul(Mul(cfg.recalc_jobs,
                                   Div(PositiveScore(js, w, j), S)),
                               Sub(w.finish, w.start))))])

\* total of max(0, before - after): the amount removed
Removed(before, after) ==
    SumSeq(Tuple([j \in DOMAIN before |->
                     Max(R(0), Sub(before[j], after[j]))]))

\* what C20 says of window w, the working jobs js before it and their
\* durations `after` it
RecalculatedBy(js, w, after) ==
    /\ after = DurationsAfter(js, w, PositiveTotal(js, w))
    /\ Le(Removed(Tuple([j \in DOMAIN js |-> js[j].duration]), after),
          Mul(cfg.recalc_jobs, Sub(w.finish, w.start)))
    /\ \A j \in DOMAIN js :
          Le(window_score(cfg, w, js[j], time), R(0)) =>
              Le(js[j].duration, after[j])
    /\ Lt(PositiveTotal(js, w), Frac(1, 1000000)) =>
          \A j \in DOMAIN js : after[j] = js[j].duration

\* the working jobs with the durations ds
WithDurations(js, ds) ==
    Tuple([j \in DOMAIN js |-> [js[j] EXCEPT !.duration = ds[j]]])

\* C20 over the windows ws emitted by one iteration, one after the other,
\* ending with the durations `final`
RECURSIVE RecalculatedAll(_, _, _)
RecalculatedAll(js, ws, final) ==
    IF ws = <<>> THEN final = Tuple([j \in DOMAIN js |-> js[j].duration])
    ELSE /\ RecalculatedBy(js, Head(ws),
                DurationsAfter(js, Head(ws), PositiveTotal(js, Head(ws))))
         /\ RecalculatedAll(
                WithDurations(js, DurationsAfter(js, Head(ws),
                                      PositiveTotal(js, Head(ws)))),
                Tail(ws), final)

\* C20: after each emitted window, of either branch, with S the sum over
\* the working jobs of max(0, window_score): if S >= 1e-6 every working
\* duration becomes max(0.01, duration - recalc_jobs * (max(0, score_j) / S)
\* * window.length), so that at most recalc_jobs * window.length is removed
\* in total and a job with a non-positive score loses nothing; if S < 1e-6
\* no working duration changes.  Nothing but the durations changes.
C20_Recalc ==
    [][(pc = "find_windows" /\ pc' = "find_windows") =>
          /\ RecalculatedAll(
                 WJobs, NewWindows,
                 Tuple([j \in DOMAIN jobs |-> heap'[jobs[j]].duration]))
          /\ \A j \in DOMAIN jobs :
                heap'[jobs[j]] =
                    [heap[jobs[j]] EXCEPT
                        !.duration = heap'[jobs[j]].duration]]_vars

\* working durations after a window: one raised to the floor 0.01, one
\* reduced but above the floor
C20_Witness ==
    /\ Started
    /\ windows # <<>>
    /\ \E i \in DOMAIN jobs : heap[jobs[i]].duration = Frac(1, 100)
    /\ \E j \in DOMAIN jobs :
          /\ Lt(heap[jobs[j]].duration, given[j].duration)
          /\ Lt(Frac(1, 100), heap[jobs[j]].duration)

(***************************************************************************)
(* The working durations against the original ones.                        *)
(***************************************************************************)

\* C21: with recalc_jobs = 0 the search is static: at every step every
\* working job has the duration the caller gave it, also a job whose
\* duration is 0 or below 0.01.
C21_Static ==
    (Started /\ cfg.recalc_jobs = R(0)) =>
        \A j \in DOMAIN jobs : heap[jobs[j]].duration = given[j].duration

\* C22: at every step every working job's duration is at most the
\* duration the caller gave it, and the working job still satisfies
\* 0 <= duration <= finish - start.
C22_OnlyDecremented ==
    Started =>
        \A j \in DOMAIN jobs :
            /\ Le(heap[jobs[j]].duration, given[j].duration)
            /\ JobOk(heap[jobs[j]].start, heap[jobs[j]].finish,
                     heap[jobs[j]].duration)

(***************************************************************************)
(* Which partitions the distributor places, and how long.                  *)
(***************************************************************************)
\* min(max_size, weight share * interval length) of partition p in call c
EstimateOf(c, p) ==
    Min(c.max_sizes[p],
        Mul(Div(c.distribution[p], SumSeq(c.distribution)),
            Sub(c.interval.finish, c.interval.start)))

\* q stands before p in the descending-estimate order, ties by index
StandsBefore(c, q, p) ==
    \/ Lt(EstimateOf(c, p), EstimateOf(c, q))
    \/ (EstimateOf(c, q) = EstimateOf(c, p) /\ q < p)

\* the cumulative length max(estimate, min_size) up to and including p
CumulativeLength(c, p) ==
    SumSeq(Tuple([q \in DOMAIN c.distribution |->
                     IF q = p \/ StandsBefore(c, q, p)
                     THEN Max(EstimateOf(c, q), c.min_sizes[q])
                     ELSE R(0)]))

\* test_common of DistributeIntervalsTest
TestCommonCall ==
    [interval     |-> Interval(R(-7), R(7)),
     distribution |-> <<Frac(3, 2), R(4), R(5), Frac(3, 2), R(2)>>,
     max_sizes    |-> <<R(10), R(8), R(7), R(5), R(4)>>,
     min_sizes    |-> <<R(5), R(5), R(4), R(4), R(3)>>]

\* C23: when the weights are not all zero, the partitions that receive a
\* sub-interval are exactly those whose cumulative length max(estimate,
\* min_size), taken along the descending-estimate order (ties by index),
\* fits in the interval: the longest prefix of that order that fits.  For
\* the interval (-7, 7) of test_common the partitions 2, 1, 4 are placed
\* and 0, 3 are None (the model counts partitions from 1).
C23_Prefix ==
    (DistributeCalled /\ ~IsZero(SumSeq(call.distribution))) =>
        /\ DOMAIN ret = DOMAIN call.distribution
        /\ Placed =
              {p \in DOMAIN call.distribution :
                  Le(CumulativeLength(call, p),
                     Sub(call.interval.finish, call.interval.start))}
        /\ call = TestCommonCall => Placed = {3, 2, 5}

\* test_common has returned, with two partitions left out
C23_Witness ==
    /\ DistributeCalled
    /\ call = TestCommonCall
    /\ Placed = {3, 2, 5}
    /\ ret[1] = None /\ ret[4] = None

\* the length of the sub-interval of a placed partition p
LengthOf(p) == Sub(ret[p].finish, ret[p].start)

\* C24 as claimed: every sub-interval returned for partition p has length
\* at most max_sizes[p], for every input.
C24_Cap ==
    DistributeCalled =>
        \A p \in Placed : Le(LengthOf(p), call.max_sizes[p])

\* C24: every sub-interval returned for partition p has length at most
\* max_sizes[p] when min_sizes[p] <= max_sizes[p], and exactly min_sizes[p]
\* when min_sizes[p] > max_sizes[p].
C24_CapOrMin ==
    DistributeCalled =>
        \A p \in Placed :
            IF Le(call.min_sizes[p], call.max_sizes[p])
            THEN Le(LengthOf(p), call.max_sizes[p])
            ELSE LengthOf(p) = call.min_sizes[p]

\* a call with equal min_sizes, as the fallback makes it, that grew one
\* partition to its cap and placed one whose cap is below the minimum
C24_Witness ==
    /\ DistributeCalled
    /\ \A p, q \in DOMAIN call.min_sizes :
          call.min_sizes[p] = call.min_sizes[q]
    /\ \E p \in Placed :
          /\ Lt(call.min_sizes[p], call.max_sizes[p])
          /\ LengthOf(p) = call.max_sizes[p]
    /\ \E p \in Placed : Lt(call.max_sizes[p], call.min_sizes[p])

\* what the fill pass gives partition p, and what it got beyond that
FillLength(c, p) == Max(EstimateOf(c, p), c.min_sizes[p])
Growth(p) == Sub(LengthOf(p), FillLength(call, p))

\* the growth that takes partition p to its max_size
WantedGrowth(c, p) == Max(R(0), Sub(c.max_sizes[p], FillLength(c, p)))

\* the space left after the fill pass
SlackAfterFill ==
    Sub(Sub(call.interval.finish, call.interval.start),
        SumSeq(Tuple([p \in DOMAIN ret |->
                  IF p \in Placed THEN FillLength(call, p) ELSE R(0)])))

\* the growth of the placed partitions that stand before p in the order
GrowthBefore(p) ==
    SumSeq(Tuple([q \in DOMAIN ret |->
              IF q \in Placed /\ StandsBefore(call, q, p)
              THEN Growth(q) ELSE R(0)]))

TotalGrowth ==
    SumSeq(Tuple([q \in DOMAIN ret |->
              IF q \in Placed THEN Growth(q) ELSE R(0)]))

\* C25 as claimed: the slack is claimed first by the later partitions: if
\* a placed partition has grown, every placed partition after it in the
\* order has grown to its max_size; the growths sum to at most the space
\* left after the fill pass.
C25_LaterFirst ==
    (DistributeCalled /\ ~IsZero(SumSeq(call.distribution))) =>
        /\ \A q, p \in Placed :
              (StandsBefore(call, q, p) /\ Lt(R(0), Growth(q))) =>
                  Growth(p) = WantedGrowth(call, p)
        /\ Le(TotalGrowth, SlackAfterFill)

\* C25: the slack is claimed first by the earlier, larger-estimate
\* partitions: each placed partition grows by min(what takes it to its
\* max_size, the slack the partitions before it have left), so that if a
\* placed partition has grown, every placed partition before it in the
\* order has grown to its max_size; the growths sum to at most the space
\* left after the fill pass.
C25_EarlierFirst ==
    (DistributeCalled /\ ~IsZero(SumSeq(call.distribution))) =>
        /\ \A p \in Placed :
              Growth(p) = Min(WantedGrowth(call, p),
                              Sub(SlackAfterFill, GrowthBefore(p)))
        /\ \A q, p \in Placed :
              (StandsBefore(call, q, p) /\ Lt(R(0), Growth(p))) =>
                  Growth(q) = WantedGrowth(call, q)
        /\ Le(TotalGrowth, SlackAfterFill)

\* the slack ran out: a partition grew, short of its max_size, and one
\* after it in the order that could have grown did not
C25_Witness ==
    /\ DistributeCalled
    /\ \E q, p \in Placed :
          /\ StandsBefore(call, q, p)
          /\ Lt(R(0), Growth(q))
          /\ Lt(Growth(q), WantedGrowth(call, q))
          /\ IsZero(Growth(p))
          /\ Lt(R(0), WantedGrowth(call, p))

(***************************************************************************)
(* The feasibility verdict of a window list and of the same list with one  *)
(* window cut short: __build_network, __find_schedule and rate() run on    *)
(* both.  The jobs and windows are drawn in the initial state.             *)
(***************************************************************************)
\* lists of one or two windows on the integer grid, in time order
WindowLists ==
    LET W == {Window(R(s), R(f), p) :
                 s \in 0..MaxTime, f \in 0..MaxTime, p \in 1..MaxPartitions}
        ok == {w \in W : Lt(w.start, w.finish)}
    IN  {<<w>> : w \in ok}
            \cup {l \in {<<v, w>> : v \in ok, w \in ok} :
                     Le(l[1].finish, l[2].start)}

\* by how much a window is cut short
Cuts == {Frac(1, 200), Frac(1, 2), R(1)}

NetCalls ==
    {c \in [jobs : JobLists, windows : WindowLists,
            window : 1..2, cut : Cuts] :
        /\ c.window \in DOMAIN c.windows
        /\ Le(c.cut, length(c.windows[c.window]))}

\* the windows ws with window j cut short to the length len
CutShort(ws, j, len) ==
    [ws EXCEPT ![j] = Window(ws[j].start, Add(ws[j].start, len),
                             ws[j].partition)]

NetInit ==
    /\ NoInstance
    /\ pc = "call"
    /\ call \in NetCalls
    /\ ret = Unset

\* flow_value and total_duration for the windows as given and for the
\* windows with one of them cut short
CallRates ==
    /\ pc = "call"
    /\ ret' = [before |-> FlowOfWindows(call.jobs, call.windows),
               after  |-> FlowOfWindows(call.jobs,
                              CutShort(call.windows, call.window,
                                  Sub(length(call.windows[call.window]),
                                      call.cut)))]
    /\ pc' = "returned"
    /\ UNCHANGED <<call, instance_vars>>

NetNext == CallRates

SpecNet == NetInit /\ [][NetNext]_vars

RatesCalled == pc = "returned" /\ "cut" \in DOMAIN call

\* every job's duration is fully routed: rate() = 1.0 and exists() is true
FullyRouted ==
    /\ Lt(R(0), ret.before[2])
    /\ rate(ret.before[1], ret.before[2]) = R(1)
    /\ exists(ret.before[1], ret.before[2])

\* the windows other than the cut one that a set A of jobs can send work to
OtherWindows(A) ==
    {k \in DOMAIN call.windows \ {call.window} :
        \E i \in A : /\ contains(call.jobs[i], call.windows[k])
                     /\ call.jobs[i].partition = call.windows[k].partition}

\* the flow every maximum flow routes into the cut window: the most work of
\* a set of jobs that finds no room in the other windows
ForcedFlow ==
    MaxOf({Sub(SumOver(A, [i \in DOMAIN call.jobs |->
                              call.jobs[i].duration]),
               SumOver(OtherWindows(A),
                       [k \in DOMAIN call.windows |->
                           length(call.windows[k])])) :
              A \in SUBSET (DOMAIN call.jobs)})

CutLength == Sub(length(call.windows[call.window]), call.cut)

\* C26 as claimed: from a fully routed job and window set, a window cut
\* short to strictly below the flow routed into it gives rate() < 0.99 and
\* exists() false, for every size of the cut.
C26_AnyCutFails ==
    (RatesCalled /\ FullyRouted /\ Lt(CutLength, ForcedFlow)) =>
        /\ Lt(rate(ret.after[1], ret.after[2]), Frac(99, 100))
        /\ ~exists(ret.after[1], ret.after[2])

\* C26: from a fully routed job and window set, a window cut short to
\* strictly below the flow that has to be routed into it gives
\* rate() = 1 - shortfall / total_duration < 1.0, where the shortfall is
\* that flow minus the new length; rate() < 0.99 and exists() false
\* exactly when the shortfall exceeds 1% of total_duration.
C26_CutLowersRate ==
    (RatesCalled /\ FullyRouted /\ Lt(CutLength, ForcedFlow)) =>
        /\ ret.after[2] = ret.before[2]
        /\ rate(ret.after[1], ret.after[2]) =
              Sub(R(1), Div(Sub(ForcedFlow, CutLength), ret.before[2]))
        /\ Lt(rate(ret.after[1], ret.after[2]), R(1))
        /\ Lt(rate(ret.after[1], ret.after[2]), Frac(99, 100))
              <=> Lt(ret.before[2],
                     Mul(R(100), Sub(ForcedFlow, CutLength)))
        /\ exists(ret.after[1], ret.after[2])
              <=> ~Lt(rate(ret.after[1], ret.after[2]), Frac(99, 100))

\* a fully routed set whose window was cut to just below the flow it has
\* to take, and the schedule still counts as existing
C26_Witness ==
    /\ RatesCalled
    /\ FullyRouted
    /\ Lt(CutLength, ForcedFlow)
    /\ exists(ret.after[1], ret.after[2])

(***************************************************************************)
(* Where the windows lie and how long they are.                            *)
(***************************************************************************)
\* C27: every window of HybridSchedule.windows is at least min_window_size
\* long: a window of the selection branch has a length in
\* [min_window_size, 2 * min_window_size), a window of the fallback branch
\* is at least min_window_size long.
C27_MinLength ==
    [][(pc = "find_windows" /\ pc' = "find_windows") =>
          /\ last_step' = "selection" =>
                \A j \in DOMAIN NewWindows :
                    /\ Le(min_window_size, length(NewWindows[j]))
                    /\ Lt(length(NewWindows[j]),
                          Mul(R(2), min_window_size))
          /\ last_step' = "fallback" =>
                \A j \in DOMAIN NewWindows :
                    Le(min_window_size, length(NewWindows[j]))
          /\ \A i \in DOMAIN windows' :
                Le(min_window_size, length(windows'[i]))]_vars

\* a built schedule with a window of at least twice min_window_size, which
\* only the fallback emits, and a shorter one
C27_Witness ==
    /\ pc = "built"
    /\ \E i \in DOMAIN windows :
          Le(Mul(R(2), min_window_size), length(windows[i]))
    /\ \E i \in DOMAIN windows :
          Lt(length(windows[i]), Mul(R(2), min_window_size))

\* C28: every window of HybridSchedule.windows lies inside the active
\* timeline: it starts at or after the minimum job start and finishes at
\* or before the maximum job finish.
C28_InsideTimeline ==
    Started =>
        \A i \in DOMAIN windows :
            /\ Le(MinOf(JobStarts(given)), windows[i].start)
            /\ Le(windows[i].finish, MaxOf(JobFinishes(given)))

(***************************************************************************)
(* Partitions of weight zero.                                              *)
(***************************************************************************)
\* C29 as claimed: distribute_intervals never assigns a sub-interval to a
\* partition whose weight is zero while some other weight is positive
\* (read in the claim's favour: never one of positive length).
C29_ZeroWeightUnplaced ==
    (DistributeCalled /\ ~IsZero(SumSeq(call.distribution))) =>
        \A p \in Placed :
            Lt(R(0), LengthOf(p)) => ~IsZero(call.distribution[p])

\* C29: while some weight is positive, a partition whose weight is zero is
\* assigned a sub-interval only if every partition with a positive estimate
\* is assigned one, and its sub-interval lies behind theirs; when its
\* max_size is not above its min_size, as for a partition of the fallback
\* that has no working job containing the split interval, the sub-interval
\* is exactly min_size long.
C29_ZeroWeightLast ==
    (DistributeCalled /\ ~IsZero(SumSeq(call.distribution))) =>
        \A p \in Placed :
            IsZero(call.distribution[p]) =>
                /\ \A q \in DOMAIN call.distribution :
                      Lt(R(0), EstimateOf(call, q)) =>
                          /\ q \in Placed
                          /\ Le(ret[q].finish, ret[p].start)
                /\ Le(call.max_sizes[p], call.min_sizes[p]) =>
                      LengthOf(p) = call.min_sizes[p]

\* a call of the fallback's shape that placed a partition of weight zero
\* and max_size zero behind one of positive weight
C29_Witness ==
    /\ DistributeCalled
    /\ \A p, q \in DOMAIN call.min_sizes :
          call.min_sizes[p] = call.min_sizes[q]
    /\ \E p, q \in Placed :
          /\ IsZero(call.distribution[p])
          /\ IsZero(call.max_sizes[p])
          /\ Lt(R(0), LengthOf(p))
          /\ Lt(R(0), EstimateOf(call, q))
          /\ Le(ret[q].finish, ret[p].start)

\* the partitions that have a working job containing the split interval
ServedPartitions(js, interval) ==
    {js[i].partition : i \in {k \in DOMAIN js : contains(js[k], interval)}}

\* C29 in the fallback step: a window emitted for a partition that has no
\* working job containing the split interval is exactly min_window_size
\* long.
C29_FallbackWindows ==
    [][FallbackTaken =>
          \A j \in DOMAIN NewWindows :
              NewWindows[j].partition \notin
                  ServedPartitions(WJobs,
                      Interval(time, Max(Add(time, min_window_size),
                                         NextTimestamp))) =>
                  length(NewWindows[j]) = min_window_size]_vars

\* a fallback step has emitted a window for a partition none of whose jobs
\* contains it
C29_FallbackWitness ==
    /\ Started
    /\ last_step = "fallback"
    /\ \E i \in DOMAIN windows :
          \A j \in DOMAIN jobs :
              heap[jobs[j]].partition = windows[i].partition =>
                  ~contains(heap[jobs[j]], windows[i])

(***************************************************************************)
(* Exceptions inside build.  The builds above run on the integer grid with *)
(* min_window_size >= 1, where no denominator of a score is zero.  Here    *)
(* the jobs lie on a grid finer than the tolerance 1e-3 of                 *)
(* Interval.contains, so that a zero-length job can contain a window, and  *)
(* a step that raises ends the build.                                      *)
(***************************************************************************)
NoError == ""

\* the exception a score function raises for this job, if any: both
\* divide by job.length, or both by job.finish - time
score_error(score, job, now) ==
    IF score = "default"
    THEN IF IsZero(length(job)) THEN "ZeroDivisionError" ELSE NoError
    ELSE IF IsZero(Sub(job.finish, now)) THEN "ZeroDivisionError"
         ELSE NoError

\* the exception self.window_score raises, if any
window_score_error(conf, window, job, now) ==
    IF conf.window_score = "default"
    THEN IF contains(job, window) /\ window.partition = job.partition
         THEN score_error(conf.score, job, now)
         ELSE NoError
    ELSE IF ~IntervalOk(now, window.finish) THEN "IntervalError"
    ELSE IF contains(job, window) /\ window.partition = job.partition
         THEN score_error(conf.score, job, now)
    ELSE IF /\ have_intersection(job, Interval(now, window.finish), TRUE)
            /\ job.partition # window.partition
         THEN IF ~IntervalOk(job.start, window.finish)
              THEN "IntervalError"
              ELSE score_error(conf.score, job, now)
    ELSE NoError

\* the exceptions the scoring of the windows ws can raise
WindowErrors(conf, js, ws, now) ==
    {window_score_error(conf, w, js[i], now) :
        w \in ws, i \in DOMAIN js} \ {NoError}

\* the exceptions the selection branch can raise: __find_best_window scores
\* every candidate with every partition (__recalc_jobs then scores the
\* chosen one again)
selection_errors(conf, js, parts, cands, now) ==
    WindowErrors(conf, js,
                 {Window(c[1], c[2], parts[k]) :
                     c \in cands, k \in DOMAIN parts}, now)

\* the exceptions the weights of __split_subinterval_by_windows can raise
split_errors(conf, js, interval) ==
    {score_error(conf.score, js[i], interval.start) :
        i \in {k \in DOMAIN js : contains(js[k], interval)}} \ {NoError}

\* the exceptions the fallback branch can raise: min() of no timestamp,
\* the weights of the split, the recalculation for the yielded windows
fallback_errors(conf, js, parts, d, now) ==
    IF {t \in Timestamps(js) : Lt(now, t)} = {} THEN {"ValueError"}
    ELSE IF split_errors(conf, js,
                Interval(now, Max(Add(now, d),
                    MinOf({t \in Timestamps(js) : Lt(now, t)})))) # {}
    THEN split_errors(conf, js,
                Interval(now, Max(Add(now, d),
                    MinOf({t \in Timestamps(js) : Lt(now, t)}))))
    ELSE WindowErrors(conf, js,
             Range(split_subinterval_by_windows(conf, js, parts, d,
                 Interval(now, Max(Add(now, d),
                     MinOf({t \in Timestamps(js) : Lt(now, t)}))))), now)

\* the exceptions this iteration of the loop can raise
StepErrors ==
    IF Len(possible_windows) > 1
    THEN selection_errors(cfg, WJobs, partitions, Range(possible_windows),
                          time)
    ELSE fallback_errors(cfg, WJobs, partitions, min_window_size, time)

\* valid jobs on the grid of half-thousandths, with zero-length and
\* zero-duration jobs
EdgeJobs ==
    {j \in {Job(Frac(s, 2000), Frac(f, 2000), p, Frac(dur, 2000)) :
               s \in 0..MaxTime, f \in 0..MaxTime, p \in 1..MaxPartitions,
               dur \in 0..MaxTime} :
        /\ JobOk(j.start, j.finish, j.duration)
        /\ (IsZero(j.duration) \/ j.duration = length(j))}

EdgeJobLists ==
    {l \in UNION {[1..n -> EdgeJobs] : n \in 1..MaxJobs} :
        l[1].partition = 1}

\* min_window_size: half a thousandth, a thousandth
EdgeWindowSizes == {Frac(1, 2000), Frac(1, 1000)}

EdgeInit ==
    /\ given \in EdgeJobLists
    /\ heap = given
    /\ caller_jobs = Tuple([i \in DOMAIN given |-> i])
    /\ cfg \in {c \in Configs : c.recalc_jobs = R(1)}
    /\ pc = "unbuilt"
    /\ jobs = Unset
    /\ initial_jobs = Unset
    /\ min_window_size = Unset
    /\ partitions = Unset
    /\ time = Unset
    /\ count = Unset
    /\ windows = Unset
    /\ last_step = "none"
    /\ network = Unset
    /\ total_duration = Unset
    /\ flow_value = Unset
    /\ call = Unset
    /\ ret = Unset

\* the iterations that raise nothing go as SelectionStep and FallbackStep
EdgeSelection ==
    /\ pc = "find_windows"
    /\ LoopCond
    /\ StepErrors = {}
    /\ SelectionStep

EdgeFallback ==
    /\ pc = "find_windows"
    /\ LoopCond
    /\ StepErrors = {}
    /\ FallbackStep

\* an iteration raises: the exception leaves __find_windows and build, and
\* self.windows is never assigned
RaiseStep ==
    /\ pc = "find_windows"
    /\ LoopCond
    /\ \E e \in StepErrors : ret' = Raised(e)
    /\ pc' = "raised"
    /\ windows' = Unset
    /\ UNCHANGED <<heap, caller_jobs, given, cfg, jobs, initial_jobs,
                   min_window_size, partitions, time, count, last_step,
                   network, total_duration, flow_value, call>>

EdgeNext ==
    \/ \E d \in EdgeWindowSizes : Build(d)
    \/ EdgeSelection
    \/ EdgeFallback
    \/ RaiseStep
    \/ Finish

SpecEdge == EdgeInit /\ [][EdgeNext]_vars

\* C30: for every non-empty list of valid jobs and every
\* min_window_size > 0, build runs to completion without raising: no empty
\* min(), no division by zero in a score, no Interval with finish < start.
C30_NeverRaises == pc # "raised"

(***************************************************************************)
(* rate() and exists() after a build.                                      *)
(***************************************************************************)
\* C31: after a build, rate() returns a value in [0, 1] and exists()
\* returns without raising, also when the schedule is infeasible, when no
\* window was discovered and when every job's duration is 0.
C31_RateAfterBuild ==
    pc = "built" =>
        /\ rate_call(pc, total_duration) = "ok"
        /\ exists_call(pc, total_duration) = "ok"
        /\ Le(R(0), rate(flow_value, total_duration))
        /\ Le(rate(flow_value, total_duration), R(1))
        /\ exists(flow_value, total_duration) \in BOOLEAN

====
